---------------------------- MODULE Spec2Model ----------------------------
(***************************************************************************)
(* Model of test-deployment/decode-jwt.py: a command-line tool that takes  *)
(* a JWT from argv[1] or from stdin, splits it on '.', pads and base64url- *)
(* decodes the middle segment, parses the bytes as JSON and prints the     *)
(* value.                                                                  *)
(*                                                                         *)
(* A str is a sequence of characters; a character is a one-character TLA+  *)
(* string (control characters and the one non-ASCII character carry a      *)
(* name).  bytes are sequences of integers in 0..255.                      *)
(***************************************************************************)
EXTENDS Integers, Sequences, FiniteSets, TLC

(***************************************************************************)
(* Characters                                                              *)
(***************************************************************************)

\* The ASCII table: AsciiChars[i + 1] is the character with code i.
AsciiChars ==
  << "x00", "x01", "x02", "x03", "x04", "x05", "x06", "x07",
     "x08", "\t",  "\n",  "x0b", "x0c", "\r",  "x0e", "x0f",
     "x10", "x11", "x12", "x13", "x14", "x15", "x16", "x17",
     "x18", "x19", "x1a", "x1b", "x1c", "x1d", "x1e", "x1f",
     " ", "!", "\"", "#", "$", "%", "&", "x27",
     "(", ")", "*", "+", ",", "-", ".", "/",
     "0", "1", "2", "3", "4", "5", "6", "7",
     "8", "9", ":", ";", "<", "=", ">", "?",
     "@", "A", "B", "C", "D", "E", "F", "G",
     "H", "I", "J", "K", "L", "M", "N", "O",
     "P", "Q", "R", "S", "T", "U", "V", "W",
     "X", "Y", "Z", "[", "\\", "]", "^", "_",
     "x60", "a", "b", "c", "d", "e", "f", "g",
     "h", "i", "j", "k", "l", "m", "n", "o",
     "p", "q", "r", "s", "t", "u", "v", "w",
     "x", "y", "z", "{", "|", "}", "~", "x7f" >>

\* A character outside ASCII (LATIN SMALL LETTER E WITH ACUTE).
NonAsciiChar == "U+00E9"

IsAscii(c) == \E i \in 1..Len(AsciiChars) : AsciiChars[i] = c

\* ord(c) of an ASCII character.
Ord(c) == (CHOOSE i \in 1..Len(AsciiChars) : AsciiChars[i] = c) - 1

\* str.encode(ascii) of an all-ASCII str.
EncodeAscii(s) == [i \in 1..Len(s) |-> Ord(s[i])]

\* The characters str.strip() removes, among those of the model.
Whitespace == {" ", "\t", "\n", "\r", "x0b", "x0c", "x1c", "x1d", "x1e", "x1f"}

(***************************************************************************)
(* str.split('.') and str.strip()                                          *)
(***************************************************************************)

RECURSIVE SplitFrom(_, _, _, _)
\* Scan s from index i; cur is the segment being collected, acc the
\* segments already closed by a separator.
SplitFrom(s, i, cur, acc) ==
  IF i > Len(s) THEN Append(acc, cur)
  ELSE IF s[i] = "." THEN SplitFrom(s, i + 1, <<>>, Append(acc, cur))
  ELSE SplitFrom(s, i + 1, Append(cur, s[i]), acc)

\* token.split('.'): always at least one segment (the empty str splits to one empty segment).
Split(s) == SplitFrom(s, 1, <<>>, <<>>)

RECURSIVE LStrip(_)
LStrip(s) ==
  IF s # <<>> /\ Head(s) \in Whitespace THEN LStrip(Tail(s)) ELSE s

RECURSIVE RStrip(_)
RStrip(s) ==
  IF s # <<>> /\ s[Len(s)] \in Whitespace
  THEN RStrip(SubSeq(s, 1, Len(s) - 1)) ELSE s

\* sys.stdin.read().strip()
Strip(s) == RStrip(LStrip(s))

(***************************************************************************)
(* The padding step                                                        *)
(***************************************************************************)

RECURSIVE Repeat(_, _)
\* c * n
Repeat(c, n) == IF n <= 0 THEN <<>> ELSE <<c>> \o Repeat(c, n - 1)

\* padding = 4 - (len(payload) % 4)
PaddingOf(payload) == 4 - (Len(payload) % 4)

\* A plausible slip: the "padding != 4" test is dropped.
AddPaddingAlways(payload) == payload \o Repeat("=", PaddingOf(payload))

\* if padding != 4: payload += '=' * padding
AddPadding(payload) ==
  IF PaddingOf(payload) # 4
  THEN payload \o Repeat("=", PaddingOf(payload))
  ELSE payload

(***************************************************************************)
(* base64.urlsafe_b64decode                                                *)
(***************************************************************************)

\* The standard base64 alphabet; the value of B64Alphabet[i] is i - 1.
B64Alphabet ==
  << "A", "B", "C", "D", "E", "F", "G", "H", "I", "J", "K", "L", "M",
     "N", "O", "P", "Q", "R", "S", "T", "U", "V", "W", "X", "Y", "Z",
     "a", "b", "c", "d", "e", "f", "g", "h", "i", "j", "k", "l", "m",
     "n", "o", "p", "q", "r", "s", "t", "u", "v", "w", "x", "y", "z",
     "0", "1", "2", "3", "4", "5", "6", "7", "8", "9", "+", "/" >>

\* The decoder's table: the 6-bit value of a byte, or 64 for a byte that
\* is no base64 digit.
B64Table ==
  [b \in 0..127 |->
     IF \E i \in 1..64 : Ord(B64Alphabet[i]) = b
     THEN (CHOOSE i \in 1..64 : Ord(B64Alphabet[i]) = b) - 1
     ELSE 64]

\* A plausible slip: b64decode is called in place of urlsafe_b64decode.
NoTranslate(b) == b

\* The urlsafe translation: '-' becomes '+', '_' becomes '/'.
UrlsafeTranslate(b) ==
  IF b = Ord("-") THEN Ord("+") ELSE IF b = Ord("_") THEN Ord("/") ELSE b

Ok(v) == [ok |-> TRUE, val |-> v, exc |-> "", msg |-> ""]
Raise(type, message) == [ok |-> FALSE, val |-> <<>>, exc |-> type, msg |-> message]

RECURSIVE A2BLoop(_, _, _, _, _, _)
\* binascii.a2b_base64 in its default (non-strict) mode, from index i:
\* quad is the position in the current group of four digits, left the bits
\* carried over, pads the '=' seen since the last digit, out the bytes.
A2BLoop(s, i, quad, left, pads, out) ==
  IF i > Len(s) THEN
    IF quad = 0 THEN Ok(out)
    ELSE IF quad = 1 THEN
      Raise("binascii.Error", "Invalid base64-encoded string: number of data characters cannot be 1 more than a multiple of 4")
    ELSE Raise("binascii.Error", "Incorrect padding")
  ELSE IF s[i] = Ord("=") THEN
    IF quad >= 2 /\ quad + pads + 1 >= 4 THEN Ok(out)
    ELSE A2BLoop(s, i + 1, quad, left, IF quad >= 2 THEN pads + 1 ELSE pads, out)
  ELSE IF B64Table[s[i]] >= 64 THEN
    A2BLoop(s, i + 1, quad, left, pads, out)
  ELSE
    LET d == B64Table[s[i]] IN
    CASE quad = 0 -> A2BLoop(s, i + 1, 1, d, 0, out)
      [] quad = 1 -> A2BLoop(s, i + 1, 2, d % 16, 0,
                             Append(out, (left * 4) + (d \div 16)))
      [] quad = 2 -> A2BLoop(s, i + 1, 3, d % 4, 0,
                             Append(out, (left * 16) + (d \div 4)))
      [] quad = 3 -> A2BLoop(s, i + 1, 0, 0, 0,
                             Append(out, (left * 64) + d))

A2BBase64(s) == A2BLoop(s, 1, 0, 0, 0, <<>>)

\* base64.urlsafe_b64decode(payload) for a str argument.
UrlsafeB64Decode(payload) ==
  IF \E i \in 1..Len(payload) : ~IsAscii(payload[i])
  THEN Raise("ValueError", "string argument should contain only ASCII characters")
  ELSE A2BBase64([i \in 1..Len(payload) |-> UrlsafeTranslate(EncodeAscii(payload)[i])])

(***************************************************************************)
(* json.loads, first half: bytes to text                                   *)
(*   s.decode(detect_encoding(s), 'surrogatepass')                         *)
(* Text is a sequence of code points.                                      *)
(***************************************************************************)

StartsWith(b, prefix) ==
  Len(b) >= Len(prefix) /\ SubSeq(b, 1, Len(prefix)) = prefix

\* json.detect_encoding(b)
DetectEncoding(b) ==
  IF StartsWith(b, <<0, 0, 254, 255>>) \/ StartsWith(b, <<255, 254, 0, 0>>)
    THEN "utf-32"
  ELSE IF StartsWith(b, <<254, 255>>) \/ StartsWith(b, <<255, 254>>)
    THEN "utf-16"
  ELSE IF StartsWith(b, <<239, 187, 191>>) THEN "utf-8-sig"
  ELSE IF Len(b) >= 4 /\ b[1] = 0
    THEN (IF b[2] # 0 THEN "utf-16-be" ELSE "utf-32-be")
  ELSE IF Len(b) >= 4 /\ b[2] = 0
    THEN (IF b[3] # 0 \/ b[4] # 0 THEN "utf-16-le" ELSE "utf-32-le")
  ELSE IF Len(b) = 2 /\ b[1] = 0 THEN "utf-16-be"
  ELSE IF Len(b) = 2 /\ b[2] = 0 THEN "utf-16-le"
  ELSE "utf-8"

IsCont(x) == x >= 128 /\ x <= 191

DecodeError(codec) == Raise("UnicodeDecodeError", codec)

RECURSIVE Utf8Loop(_, _, _)
\* The utf-8 codec with the surrogatepass handler: an encoded surrogate
\* (ED A0..BF xx) is let through, every other ill-formed sequence raises.
Utf8Loop(b, i, out) ==
  IF i > Len(b) THEN Ok(out)
  ELSE LET x == b[i]
           n == Len(b) - i
           c1 == IF n >= 1 THEN b[i + 1] ELSE 0
           c2 == IF n >= 2 THEN b[i + 2] ELSE 0
           c3 == IF n >= 3 THEN b[i + 3] ELSE 0
       IN
       IF x < 128 THEN Utf8Loop(b, i + 1, Append(out, x))
       ELSE IF x >= 194 /\ x <= 223 /\ IsCont(c1)
         THEN Utf8Loop(b, i + 2, Append(out, (x - 192) * 64 + (c1 - 128)))
       ELSE IF /\ x >= 224 /\ x <= 239 /\ IsCont(c1) /\ IsCont(c2)
               /\ (x = 224 => c1 >= 160)
         THEN Utf8Loop(b, i + 3,
                Append(out, (x - 224) * 4096 + (c1 - 128) * 64 + (c2 - 128)))
       ELSE IF /\ x >= 240 /\ x <= 244 /\ IsCont(c1) /\ IsCont(c2) /\ IsCont(c3)
               /\ (x = 240 => c1 >= 144) /\ (x = 244 => c1 <= 143)
         THEN Utf8Loop(b, i + 4,
                Append(out, (x - 240) * 262144 + (c1 - 128) * 4096
                            + (c2 - 128) * 64 + (c3 - 128)))
       ELSE DecodeError("utf-8")

IsSurrogate(u) == u >= 55296 /\ u <= 57343
IsHighSurrogate(u) == u >= 55296 /\ u <= 56319
IsLowSurrogate(u) == u >= 56320 /\ u <= 57343

\* The code point of a surrogate pair.
JoinSurrogates(hi, lo) == 65536 + (hi - 55296) * 1024 + (lo - 56320)

\* The 16-bit unit at b[i], b[i + 1].
Unit16(b, i, big) ==
  IF big THEN b[i] * 256 + b[i + 1] ELSE b[i + 1] * 256 + b[i]

RECURSIVE Utf16Loop(_, _, _, _)
\* The utf-16 codecs with surrogatepass: a lone surrogate is let through,
\* a trailing odd byte raises.
Utf16Loop(b, i, big, out) ==
  IF i > Len(b) THEN Ok(out)
  ELSE IF i = Len(b) THEN DecodeError("utf-16")
  ELSE LET u == Unit16(b, i, big) IN
       IF /\ IsHighSurrogate(u) /\ i + 3 <= Len(b)
          /\ IsLowSurrogate(Unit16(b, i + 2, big))
       THEN Utf16Loop(b, i + 4, big,
              Append(out, JoinSurrogates(u, Unit16(b, i + 2, big))))
       ELSE Utf16Loop(b, i + 2, big, Append(out, u))

\* The 32-bit unit at b[i] .. b[i + 3], or -1 when its top byte is set
\* (the value is then above 0x10FFFF whatever the rest is).
Unit32(b, i, big) ==
  LET top == IF big THEN b[i] ELSE b[i + 3]
      low == IF big
             THEN (b[i + 1] * 256 + b[i + 2]) * 256 + b[i + 3]
             ELSE (b[i + 2] * 256 + b[i + 1]) * 256 + b[i]
  IN IF top # 0 THEN 0 - 1 ELSE low

RECURSIVE Utf32Loop(_, _, _, _)
\* The utf-32 codecs: a value above 0x10FFFF or a truncated unit raises.
Utf32Loop(b, i, big, out) ==
  IF i > Len(b) THEN Ok(out)
  ELSE IF i + 3 > Len(b) THEN DecodeError("utf-32")
  ELSE IF Unit32(b, i, big) < 0 \/ Unit32(b, i, big) > 1114111
    THEN DecodeError("utf-32")
  ELSE Utf32Loop(b, i + 4, big, Append(out, Unit32(b, i, big)))

\* b.decode(detect_encoding(b), 'surrogatepass'): the codecs that take a
\* byte order mark consume it.
DecodeText(b) ==
  LET enc == DetectEncoding(b) IN
  CASE enc = "utf-8"     -> Utf8Loop(b, 1, <<>>)
    [] enc = "utf-8-sig" -> Utf8Loop(b, 4, <<>>)
    [] enc = "utf-16"    -> Utf16Loop(b, 3, b[1] = 254, <<>>)
    [] enc = "utf-16-be" -> Utf16Loop(b, 1, TRUE, <<>>)
    [] enc = "utf-16-le" -> Utf16Loop(b, 1, FALSE, <<>>)
    [] enc = "utf-32"    -> Utf32Loop(b, 5, b[1] = 0, <<>>)
    [] enc = "utf-32-be" -> Utf32Loop(b, 1, TRUE, <<>>)
    [] enc = "utf-32-le" -> Utf32Loop(b, 1, FALSE, <<>>)

(***************************************************************************)
(* json.loads, second half: the decoder                                    *)
(*                                                                         *)
(* A Python value is a record [t, n, s, c]: t the type, n the number of an *)
(* int or bool, s the text of a str or the literal of a float, c the       *)
(* entries [k, v] of a list (k empty) or dict (k the key), in insertion    *)
(* order.                                                                  *)
(***************************************************************************)

\* None: what JSON null decodes to, and what a function returns on a bare
\* "return None".
PyNone == [t |-> "None", n |-> 0, s |-> <<>>, c |-> <<>>]
PyBool(b) == [t |-> "bool", n |-> IF b THEN 1 ELSE 0, s |-> <<>>, c |-> <<>>]
PyInt(n) == [t |-> "int", n |-> n, s |-> <<>>, c |-> <<>>]
PyFloat(lit) == [t |-> "float", n |-> 0, s |-> lit, c |-> <<>>]
PyStr(s) == [t |-> "str", n |-> 0, s |-> s, c |-> <<>>]
PyList(entries) == [t |-> "list", n |-> 0, s |-> <<>>, c |-> entries]
PyDict(entries) == [t |-> "dict", n |-> 0, s |-> <<>>, c |-> entries]
Entry(key, value) == [k |-> key, v |-> value]

\* The code points the decoder looks for.
ChQuote == Ord("\"")
ChBackslash == Ord("\\")
ChSlash == Ord("/")
ChLBrace == Ord("{")
ChRBrace == Ord("}")
ChLBracket == Ord("[")
ChRBracket == Ord("]")
ChColon == Ord(":")
ChComma == Ord(",")
ChMinus == Ord("-")
ChPlus == Ord("+")
ChDot == Ord(".")
ChZero == Ord("0")
ChNine == Ord("9")
JsonWhitespace == {Ord(" "), Ord("\t"), Ord("\n"), Ord("\r")}

IsDigit(x) == x >= ChZero /\ x <= ChNine

\* The text of a literal.
Lit(str) == EncodeAscii(str)
LitNull == Lit(<<"n", "u", "l", "l">>)
LitTrue == Lit(<<"t", "r", "u", "e">>)
LitFalse == Lit(<<"f", "a", "l", "s", "e">>)
LitNaN == Lit(<<"N", "a", "N">>)
LitInfinity == Lit(<<"I", "n", "f", "i", "n", "i", "t", "y">>)
LitNegInfinity == Lit(<<"-", "I", "n", "f", "i", "n", "i", "t", "y">>)

\* s[i:i+len(lit)] == lit
Matches(s, i, lit) ==
  i + Len(lit) - 1 <= Len(s) /\ SubSeq(s, i, i + Len(lit) - 1) = lit

\* A parse result: the value and the index after it, or the error.
Parsed(v, next) == [ok |-> TRUE, val |-> v, end |-> next, msg |-> ""]
ParseError(message) == [ok |-> FALSE, val |-> PyNone, end |-> 0, msg |-> message]
\* The scanner's StopIteration, which raw_decode reports as this.
StopIteration == ParseError("Expecting value")

RECURSIVE SkipWs(_, _)
\* WHITESPACE.match(s, i).end()
SkipWs(s, i) ==
  IF i <= Len(s) /\ s[i] \in JsonWhitespace THEN SkipWs(s, i + 1) ELSE i

RECURSIVE SkipDigits(_, _)
SkipDigits(s, i) ==
  IF i <= Len(s) /\ IsDigit(s[i]) THEN SkipDigits(s, i + 1) ELSE i

RECURSIVE IntOf(_, _)
\* int() of a run of digits, acc the value so far.
IntOf(digits, acc) ==
  IF digits = <<>> THEN acc
  ELSE IntOf(Tail(digits), acc * 10 + (Head(digits) - ChZero))

\* The number at s[i]: (-?(0|[1-9][0-9]*))(\.[0-9]+)?([eE][-+]?[0-9]+)?
\* An int when there is neither fraction nor exponent, else a float.
\* The matcher is a chain, one operator for each part of the pattern.

\* The match is s[i .. numEnd - 1], its integer part s[d0 .. intEnd - 1].
NumberValue(s, i, d0, intEnd, numEnd) ==
  IF numEnd > intEnd
  THEN Parsed(PyFloat(SubSeq(s, i, numEnd - 1)), numEnd)
  ELSE Parsed(PyInt(IF d0 > i
                    THEN 0 - IntOf(SubSeq(s, d0, intEnd - 1), 0)
                    ELSE IntOf(SubSeq(s, d0, intEnd - 1), 0)), numEnd)

\* expStart is where the exponent's digits would start.
NumberExpDigits(s, i, d0, intEnd, fracEnd, expStart) ==
  IF expStart <= Len(s) /\ IsDigit(s[expStart])
  THEN NumberValue(s, i, d0, intEnd, SkipDigits(s, expStart))
  ELSE NumberValue(s, i, d0, intEnd, fracEnd)

\* fracEnd is the index after the fraction, if any.
NumberExp(s, i, d0, intEnd, fracEnd) ==
  IF fracEnd <= Len(s) /\ s[fracEnd] \in {Ord("e"), Ord("E")}
  THEN NumberExpDigits(s, i, d0, intEnd, fracEnd,
         IF fracEnd + 1 <= Len(s) /\ s[fracEnd + 1] \in {ChPlus, ChMinus}
         THEN fracEnd + 2 ELSE fracEnd + 1)
  ELSE NumberValue(s, i, d0, intEnd, fracEnd)

\* intEnd is the index after the integer part.
NumberFrac(s, i, d0, intEnd) ==
  IF intEnd + 1 <= Len(s) /\ s[intEnd] = ChDot /\ IsDigit(s[intEnd + 1])
  THEN NumberExp(s, i, d0, intEnd, SkipDigits(s, intEnd + 1))
  ELSE NumberExp(s, i, d0, intEnd, intEnd)

\* d0 is the index after the sign, if any.
NumberInt(s, i, d0) ==
  IF d0 > Len(s) \/ ~IsDigit(s[d0]) THEN StopIteration
  ELSE NumberFrac(s, i, d0, IF s[d0] = ChZero THEN d0 + 1 ELSE SkipDigits(s, d0))

MatchNumber(s, i) ==
  NumberInt(s, i, IF i <= Len(s) /\ s[i] = ChMinus THEN i + 1 ELSE i)

IsHex(x) ==
  \/ IsDigit(x)
  \/ x >= Ord("a") /\ x <= Ord("f")
  \/ x >= Ord("A") /\ x <= Ord("F")

HexVal(x) ==
  IF IsDigit(x) THEN x - ChZero
  ELSE IF x >= Ord("a") THEN x - Ord("a") + 10
  ELSE x - Ord("A") + 10

\* Whether s[i .. i+3] are four hex digits, and their value.
IsHex4(s, i) == i + 3 <= Len(s) /\ \A j \in i..(i + 3) : IsHex(s[j])
Hex4(s, i) ==
  ((HexVal(s[i]) * 16 + HexVal(s[i + 1])) * 16 + HexVal(s[i + 2])) * 16
  + HexVal(s[i + 3])

\* The character a one-letter escape stands for, or -1.
Unescape(x) ==
  CASE x = ChQuote -> ChQuote
    [] x = ChBackslash -> ChBackslash
    [] x = ChSlash -> ChSlash
    [] x = Ord("b") -> 8
    [] x = Ord("f") -> 12
    [] x = Ord("n") -> 10
    [] x = Ord("r") -> 13
    [] x = Ord("t") -> 9
    [] OTHER -> 0 - 1

RECURSIVE ScanString(_, _, _)

\* The \uXXXX escape at s[i], whose value is u: a high surrogate takes the
\* low surrogate escaped right after it.
ScanUnicodeEscape(s, i, u, out) ==
  IF /\ IsHighSurrogate(u)
     /\ i + 7 <= Len(s)
     /\ s[i + 6] = ChBackslash /\ s[i + 7] = Ord("u")
     /\ IsHex4(s, i + 8)
     /\ IsLowSurrogate(Hex4(s, i + 8))
  THEN ScanString(s, i + 12, Append(out, JoinSurrogates(u, Hex4(s, i + 8))))
  ELSE ScanString(s, i + 6, Append(out, u))

\* The escape at s[i], a backslash.
ScanEscape(s, i, out) ==
  IF i + 1 > Len(s) THEN ParseError("Unterminated string starting at")
  ELSE IF s[i + 1] # Ord("u") THEN
    IF Unescape(s[i + 1]) < 0 THEN ParseError("Invalid \\escape")
    ELSE ScanString(s, i + 2, Append(out, Unescape(s[i + 1])))
  ELSE IF ~IsHex4(s, i + 2) THEN ParseError("Invalid \\uXXXX escape")
  ELSE ScanUnicodeEscape(s, i, Hex4(s, i + 2), out)

\* scanstring(s, i) in strict mode, i being the index after the opening
\* quote and out the text collected so far.
ScanString(s, i, out) ==
  IF i > Len(s) THEN ParseError("Unterminated string starting at")
  ELSE IF s[i] = ChQuote THEN Parsed(PyStr(out), i + 1)
  ELSE IF s[i] = ChBackslash THEN ScanEscape(s, i, out)
  ELSE IF s[i] < 32 THEN ParseError("Invalid control character at")
  ELSE ScanString(s, i + 1, Append(out, s[i]))

\* dict(pairs) extended by one pair: a repeated key keeps its first place
\* and takes the last value.
DictSet(entries, key, value) ==
  IF \E j \in 1..Len(entries) : entries[j].k = key
  THEN [j \in 1..Len(entries) |->
          IF entries[j].k = key THEN Entry(key, value) ELSE entries[j]]
  ELSE Append(entries, Entry(key, value))

RECURSIVE ScanOnce(_, _)
RECURSIVE ObjectLoop(_, _, _)
RECURSIVE ArrayLoop(_, _, _)

\* JSONObject's loop after a pair: next is the index of what follows it.
ObjectNext(s, next, entries) ==
  IF next <= Len(s) /\ s[next] = ChRBrace
  THEN Parsed(PyDict(entries), next + 1)
  ELSE IF next > Len(s) \/ s[next] # ChComma
  THEN ParseError("Expecting ',' delimiter")
  ELSE ObjectLoop(s, SkipWs(s, next + 1), entries)

\* ... after the value was scanned.
ObjectValue(s, key, value, entries) ==
  IF ~value.ok THEN value
  ELSE ObjectNext(s, SkipWs(s, value.end), DictSet(entries, key.val.s, value.val))

\* ... at the colon.
ObjectColon(s, key, colon, entries) ==
  IF colon > Len(s) \/ s[colon] # ChColon
  THEN ParseError("Expecting ':' delimiter")
  ELSE ObjectValue(s, key, ScanOnce(s, SkipWs(s, colon + 1)), entries)

\* ... after the key was scanned.
ObjectKey(s, key, entries) ==
  IF ~key.ok THEN key
  ELSE ObjectColon(s, key, SkipWs(s, key.end), entries)

\* The body of JSONObject's loop: i is at the opening quote of a key.
ObjectLoop(s, i, entries) ==
  IF i > Len(s) \/ s[i] # ChQuote
  THEN ParseError("Expecting property name enclosed in double quotes")
  ELSE ObjectKey(s, ScanString(s, i + 1, <<>>), entries)

\* first is the index of the first thing after the opening brace.
ObjectFirst(s, first) ==
  IF first <= Len(s) /\ s[first] = ChRBrace
  THEN Parsed(PyDict(<<>>), first + 1)
  ELSE ObjectLoop(s, first, <<>>)

\* JSONObject: i is the index after the opening brace.
ParseObject(s, i) == ObjectFirst(s, SkipWs(s, i))

\* JSONArray's loop after an item: next is the index of what follows it.
ArrayNext(s, next, entries) ==
  IF next <= Len(s) /\ s[next] = ChRBracket
  THEN Parsed(PyList(entries), next + 1)
  ELSE IF next > Len(s) \/ s[next] # ChComma
  THEN ParseError("Expecting ',' delimiter")
  ELSE ArrayLoop(s, SkipWs(s, next + 1), entries)

\* ... after the item was scanned.
ArrayValue(s, value, entries) ==
  IF ~value.ok THEN value
  ELSE ArrayNext(s, SkipWs(s, value.end), Append(entries, Entry(<<>>, value.val)))

\* The body of JSONArray's loop: i is at the start of an item.
ArrayLoop(s, i, entries) == ArrayValue(s, ScanOnce(s, i), entries)

\* first is the index of the first thing after the opening bracket.
ArrayFirst(s, first) ==
  IF first <= Len(s) /\ s[first] = ChRBracket
  THEN Parsed(PyList(<<>>), first + 1)
  ELSE ArrayLoop(s, first, <<>>)

\* JSONArray: i is the index after the opening bracket.
ParseArray(s, i) == ArrayFirst(s, SkipWs(s, i))

\* scan_once(s, i): the value that starts at s[i].
ScanOnce(s, i) ==
  IF i > Len(s) THEN StopIteration
  ELSE IF s[i] = ChQuote THEN ScanString(s, i + 1, <<>>)
  ELSE IF s[i] = ChLBrace THEN ParseObject(s, i + 1)
  ELSE IF s[i] = ChLBracket THEN ParseArray(s, i + 1)
  ELSE IF Matches(s, i, LitNull) THEN Parsed(PyNone, i + 4)
  ELSE IF Matches(s, i, LitTrue) THEN Parsed(PyBool(TRUE), i + 4)
  ELSE IF Matches(s, i, LitFalse) THEN Parsed(PyBool(FALSE), i + 5)
  ELSE IF Matches(s, i, LitNaN) THEN Parsed(PyFloat(LitNaN), i + 3)
  ELSE IF Matches(s, i, LitInfinity) THEN Parsed(PyFloat(LitInfinity), i + 8)
  ELSE IF Matches(s, i, LitNegInfinity)
    THEN Parsed(PyFloat(LitNegInfinity), i + 9)
  ELSE MatchNumber(s, i)

\* The end of JSONDecoder.decode: r is what raw_decode found.
DecodeEnd(s, r) ==
  IF ~r.ok THEN Raise("JSONDecodeError", r.msg)
  ELSE IF SkipWs(s, r.end) # Len(s) + 1 THEN Raise("JSONDecodeError", "Extra data")
  ELSE Ok(r.val)

\* JSONDecoder.decode(s): one value, whitespace around it, nothing else.
JsonDecode(s) == DecodeEnd(s, ScanOnce(s, SkipWs(s, 1)))

\* json.loads once the text is there.
LoadsText(text) == IF ~text.ok THEN text ELSE JsonDecode(text.val)

\* json.loads(decoded) for a bytes argument.
JsonLoads(b) == LoadsText(DecodeText(b))

(***************************************************************************)
(* The entry point's test of the result                                    *)
(***************************************************************************)

\* Whether a float literal denotes zero: no non-zero digit before the
\* exponent.  (Literals long enough to underflow, such as 1e-999, are
\* beyond the lengths of the model.)
FloatIsZero(lit) ==
  LET exps == {i \in 1..Len(lit) : lit[i] \in {Ord("e"), Ord("E")}}
      mantissaEnd == IF exps = {} \/ lit \in {LitNaN, LitInfinity, LitNegInfinity}
                     THEN Len(lit)
                     ELSE (CHOOSE i \in exps : \A j \in exps : i <= j) - 1
  IN \A i \in 1..mantissaEnd :
       ~(lit[i] >= Ord("1") /\ lit[i] <= Ord("9"))
       /\ lit[i] \notin {Ord("N"), Ord("I")}

\* bool(v), the test of "if payload:".
Truthy(v) ==
  CASE v.t = "None" -> FALSE
    [] v.t = "bool" -> v.n = 1
    [] v.t = "int" -> v.n # 0
    [] v.t = "float" -> ~FloatIsZero(v.s)
    [] v.t = "str" -> v.s # <<>>
    [] v.t \in {"list", "dict"} -> v.c # <<>>

(***************************************************************************)
(* What the program writes to standard output                              *)
(***************************************************************************)

\* print("Invalid JWT format")
InvalidFormatLine ==
  [kind |-> "diagnostic", head |-> "Invalid JWT format", tail |-> "", val |-> PyNone]

\* print(f"Error decoding JWT: {e}")
ErrorLine(e) ==
  [kind |-> "diagnostic", head |-> "Error decoding JWT: ", tail |-> e.msg, val |-> PyNone]

\* print(json.dumps(payload, indent=2)): the line is the rendering of the
\* value v, kept here as the value it renders.
JsonLine(v) == [kind |-> "json", head |-> "", tail |-> "", val |-> v]

\* No exception is pending.
NoExc == [type |-> "", msg |-> ""]

\* A plausible slip: the handler names the base64 error alone.
CatchesBase64ErrorOnly(type) == type = "binascii.Error"

\* "except Exception": binascii.Error, UnicodeDecodeError and
\* JSONDecodeError derive from ValueError, which derives from Exception.
Catches(type) ==
  type \in {"ValueError", "binascii.Error", "UnicodeDecodeError", "JSONDecodeError"}

\* A plausible slip: the script name is not counted.
HasArgumentOffByOne(args) == Len(args) > 1

\* len(sys.argv) > 1, args being sys.argv[1:].
HasArgument(args) == Len(args) > 0

\* A plausible slip: one segment too few is let through.
WrongSegmentCountLoose(segments) == Len(segments) < 2 \/ Len(segments) > 3

\* len(parts) != 3
WrongSegmentCount(segments) == Len(segments) # 3

(***************************************************************************)
(* The inputs of the model                                                 *)
(***************************************************************************)

\* Longest payload segment drawn letter by letter.
MaxPayloadLen == 5
\* Longest whole token drawn letter by letter.
MaxTokenLen == 5
\* Most keys of a JSON object that is encoded into a token.
MaxKeys == 1

\* All strs over the alphabet of length at most n.
RECURSIVE StrsUpTo(_, _)
StrsUpTo(alphabet, n) ==
  IF n = 0 THEN {<<>>}
  ELSE LET shorter == StrsUpTo(alphabet, n - 1) IN
       shorter \cup {Append(t, c) : t \in shorter, c \in alphabet}

\* Payload letters: two base64 digits, the pad, an ASCII character that
\* is no digit, and a character outside ASCII.
PayloadChars == {"M", "Q", "=", "$", NonAsciiChar}
\* Token letters: the separator, two digits and a blank.
TokenChars == {".", "M", "Q", " "}

\* The encoder's side of a round trip: JSON text of a value, as
\* json.dumps(v, ensure_ascii=False, separators=(',', ':')) writes it.
RECURSIVE DigitsOf(_)
DigitsOf(n) ==
  IF n < 10 THEN <<ChZero + n>>
  ELSE Append(DigitsOf(n \div 10), ChZero + (n % 10))

HexDigit(d) == IF d < 10 THEN ChZero + d ELSE Ord("a") + (d - 10)

EscapeChar(x) ==
  CASE x = ChQuote -> <<ChBackslash, ChQuote>>
    [] x = ChBackslash -> <<ChBackslash, ChBackslash>>
    [] x = 10 -> <<ChBackslash, Ord("n")>>
    [] x = 13 -> <<ChBackslash, Ord("r")>>
    [] x = 9 -> <<ChBackslash, Ord("t")>>
    [] x = 8 -> <<ChBackslash, Ord("b")>>
    [] x = 12 -> <<ChBackslash, Ord("f")>>
    [] x < 32 /\ x \notin {8, 9, 10, 12, 13} ->
         <<ChBackslash, Ord("u"), ChZero, ChZero, HexDigit(x \div 16), HexDigit(x % 16)>>
    [] OTHER -> <<x>>

RECURSIVE QuoteBody(_)
QuoteBody(text) ==
  IF text = <<>> THEN <<>> ELSE EscapeChar(Head(text)) \o QuoteBody(Tail(text))

Quote(text) == <<ChQuote>> \o QuoteBody(text) \o <<ChQuote>>

RECURSIVE Serialize(_)
RECURSIVE SerializeEntries(_, _)
SerializeEntries(entries, keyed) ==
  IF entries = <<>> THEN <<>>
  ELSE (IF keyed THEN Quote(Head(entries).k) \o <<ChColon>> ELSE <<>>)
       \o Serialize(Head(entries).v)
       \o (IF Len(entries) > 1 THEN <<ChComma>> ELSE <<>>)
       \o SerializeEntries(Tail(entries), keyed)

Serialize(v) ==
  CASE v.t = "None" -> LitNull
    [] v.t = "bool" -> (IF v.n = 1 THEN LitTrue ELSE LitFalse)
    [] v.t = "int" -> (IF v.n < 0 THEN <<ChMinus>> \o DigitsOf(0 - v.n) ELSE DigitsOf(v.n))
    [] v.t = "str" -> Quote(v.s)
    [] v.t = "list" -> <<ChLBracket>> \o SerializeEntries(v.c, FALSE) \o <<ChRBracket>>
    [] v.t = "dict" -> <<ChLBrace>> \o SerializeEntries(v.c, TRUE) \o <<ChRBrace>>

\* text.encode('utf-8')
RECURSIVE Utf8Encode(_)
Utf8Encode(text) ==
  IF text = <<>> THEN <<>>
  ELSE LET x == Head(text) IN
       (CASE x < 128 -> <<x>>
          [] x >= 128 /\ x < 2048 -> <<192 + (x \div 64), 128 + (x % 64)>>
          [] x >= 2048 /\ x < 65536 ->
               <<224 + (x \div 4096), 128 + ((x \div 64) % 64), 128 + (x % 64)>>
          [] x >= 65536 ->
               <<240 + (x \div 262144), 128 + ((x \div 4096) % 64),
                 128 + ((x \div 64) % 64), 128 + (x % 64)>>)
       \o Utf8Encode(Tail(text))

\* The base64url digit of a 6-bit value.
UrlDigit(d) ==
  IF d = 62 THEN "-" ELSE IF d = 63 THEN "_" ELSE B64Alphabet[d + 1]

\* base64.urlsafe_b64encode(b) with the '=' removed.
RECURSIVE B64UrlEncode(_)
B64UrlEncode(b) ==
  CASE Len(b) = 0 -> <<>>
    [] Len(b) = 1 -> <<UrlDigit(b[1] \div 4), UrlDigit((b[1] % 4) * 16)>>
    [] Len(b) = 2 -> <<UrlDigit(b[1] \div 4),
                       UrlDigit(((b[1] % 4) * 16) + (b[2] \div 16)),
                       UrlDigit((b[2] % 16) * 4)>>
    [] OTHER -> <<UrlDigit(b[1] \div 4),
                  UrlDigit(((b[1] % 4) * 16) + (b[2] \div 16)),
                  UrlDigit(((b[2] % 16) * 4) + (b[3] \div 64)),
                  UrlDigit(b[3] % 64)>>
                \o B64UrlEncode(SubSeq(b, 4, Len(b)))

\* The payload segment that carries the value v.
EncodePayload(v) == B64UrlEncode(Utf8Encode(Serialize(v)))

\* Values that are put into tokens.  The text values hold an accented
\* letter (two bytes of UTF-8), a quote and a line feed (both escaped), and
\* question marks (whose base64url digits include '_').
Scalars ==
  { PyNone, PyBool(TRUE), PyBool(FALSE), PyInt(0), PyInt(1), PyInt(0 - 7),
    PyInt(1234567890), PyStr(<<>>), PyStr(Lit(<<"1", "2", "3", "4", "5", "6", "7", "8", "9", "0">>)),
    PyStr(<<233, ChQuote, 10>>), PyStr(Lit(<<"?", "?", "?">>)) }
Members ==
  Scalars \cup
  { PyList(<<>>), PyList(<<Entry(<<>>, PyInt(1)), Entry(<<>>, PyNone)>>),
    PyDict(<<>>), PyDict(<<Entry(Lit(<<"k">>), PyList(<<>>))>>) }
Keys == { <<>>, Lit(<<"s", "u", "b">>), <<233>> }

\* The dicts of n entries with distinct keys.
RECURSIVE DictEntries(_)
DictEntries(n) ==
  IF n = 0 THEN {<<>>}
  ELSE {Append(es, Entry(k, v)) :
          es \in {e \in DictEntries(n - 1) : TRUE}, k \in Keys, v \in Members}

HasDistinctKeys(es) ==
  \A i, j \in 1..Len(es) : es[i].k = es[j].k => i = j

\* The JSON objects of the round trip.
JsonObjects ==
  {PyDict(es) : es \in {e \in UNION {DictEntries(n) : n \in 0..MaxKeys} :
                          HasDistinctKeys(e)}}

\* The values issuers encode: JSON objects, and values that are none.
IssuedValues == Members \cup JsonObjects

\* "dGVzdA": the bytes of "test", which is no JSON.
TestPayload == <<"d", "G", "V", "z", "d", "A">>

Join3(header, payload, signature) ==
  header \o <<".">> \o payload \o <<".">> \o signature

\* Tokens of three segments around each payload drawn letter by letter.
PayloadTokens ==
  {Join3(<<"h">>, p, <<"s">>) :
     p \in StrsUpTo(PayloadChars, MaxPayloadLen) \cup {TestPayload}}

\* The token an issuer makes of the value v.
IssueToken(v) == Join3(<<"h">>, EncodePayload(v), <<"s">>)

\* Tokens drawn letter by letter: any number of segments.
ShortTokens == StrsUpTo(TokenChars, MaxTokenLen)

\* Tokens that are run in every way the tool can be started.
VariedTokens ==
  ShortTokens \cup {Join3(<<"h">>, EncodePayload(v), <<>>) : v \in Members}

\* What may surround the token on standard input.
Wraps == { <<<<>>, <<>>>>, <<<<>>, <<"\n">>>>, <<<<" ", "\t">>, <<"\r", "\n">>>> }

\* Another token, present where the tool is not to look.
OtherToken == Join3(<<"x">>, <<"M", "Q">>, <<"y">>)

(***************************************************************************)
(* The program                                                             *)
(***************************************************************************)

VARIABLES
  argv,        \* sys.argv[1:]
  stdin,       \* the text on standard input
  stdinRead,   \* whether sys.stdin.read() was called
  pc,          \* where the program is
  token,       \* the entry point's token
  parts,       \* decode_jwt_payload's parts
  payload,     \* decode_jwt_payload's payload
  decoded,     \* decode_jwt_payload's decoded
  exc,         \* the exception raised in the try block, NoExc if none
  result,      \* what decode_jwt_payload returned
  stdout,      \* the lines written to standard output
  exitStatus,  \* the exit status; -1 while the process runs
  issued       \* <<v>> when the token given was made of the value v by its
               \* issuer, <<>> when it was written by hand

vars == <<argv, stdin, stdinRead, pc, token, parts, payload, decoded, exc,
          result, stdout, exitStatus, issued>>

Init ==
  /\ \/ /\ argv \in {<<t>> : t \in PayloadTokens \cup VariedTokens}
        /\ stdin = OtherToken
        /\ issued = <<>>
     \/ /\ argv \in {<<t, OtherToken>> : t \in VariedTokens}
        /\ stdin = OtherToken
        /\ issued = <<>>
     \/ /\ argv = <<>>
        /\ stdin \in {w[1] \o t \o w[2] : t \in VariedTokens, w \in Wraps}
        /\ issued = <<>>
     \/ /\ issued \in {<<v>> : v \in IssuedValues}
        /\ argv = <<IssueToken(issued[1])>>
        /\ stdin = OtherToken
  /\ stdinRead = FALSE
  /\ pc = "main"
  /\ token = <<>>
  /\ parts = <<>>
  /\ payload = <<>>
  /\ decoded = <<>>
  /\ exc = NoExc
  /\ result = PyNone
  /\ stdout = <<>>
  /\ exitStatus = 0 - 1

\* token = sys.argv[1]
ReadArgument ==
  /\ pc = "main"
  /\ HasArgument(argv)
  /\ token' = argv[1]
  /\ pc' = "call"
  /\ UNCHANGED <<argv, stdin, stdinRead, parts, payload, decoded, exc, result,
                 stdout, exitStatus, issued>>

\* token = sys.stdin.read().strip()
ReadStdin ==
  /\ pc = "main"
  /\ ~HasArgument(argv)
  /\ token' = Strip(stdin)
  /\ stdinRead' = TRUE
  /\ pc' = "call"
  /\ UNCHANGED <<argv, stdin, parts, payload, decoded, exc, result, stdout,
                 exitStatus, issued>>

\* parts = token.split('.')
SplitToken ==
  /\ pc = "call"
  /\ parts' = Split(token)
  /\ pc' = "split"
  /\ UNCHANGED <<argv, stdin, stdinRead, token, payload, decoded, exc, result,
                 stdout, exitStatus, issued>>

\* if len(parts) != 3: print("Invalid JWT format"); return None
RejectFormat ==
  /\ pc = "split"
  /\ WrongSegmentCount(parts)
  /\ stdout' = Append(stdout, InvalidFormatLine)
  /\ result' = PyNone
  /\ pc' = "returned"
  /\ UNCHANGED <<argv, stdin, stdinRead, token, parts, payload, decoded, exc,
                 exitStatus, issued>>

\* payload = parts[1]
TakePayload ==
  /\ pc = "split"
  /\ ~WrongSegmentCount(parts)
  /\ payload' = parts[2]
  /\ pc' = "pad"
  /\ UNCHANGED <<argv, stdin, stdinRead, token, parts, decoded, exc, result,
                 stdout, exitStatus, issued>>

\* padding = 4 - (len(payload) % 4); if padding != 4: payload += '=' * padding
Pad ==
  /\ pc = "pad"
  /\ payload' = AddPadding(payload)
  /\ pc' = "b64"
  /\ UNCHANGED <<argv, stdin, stdinRead, token, parts, decoded, exc, result,
                 stdout, exitStatus, issued>>

\* decoded = base64.urlsafe_b64decode(payload)
Base64Decode ==
  /\ pc = "b64"
  /\ LET r == UrlsafeB64Decode(payload) IN
     IF r.ok
     THEN /\ decoded' = r.val
          /\ pc' = "json"
          /\ exc' = exc
     ELSE /\ exc' = [type |-> r.exc, msg |-> r.msg]
          /\ pc' = "except"
          /\ decoded' = decoded
  /\ UNCHANGED <<argv, stdin, stdinRead, token, parts, payload, result, stdout,
                 exitStatus, issued>>

\* return json.loads(decoded)
Loads ==
  /\ pc = "json"
  /\ LET r == JsonLoads(decoded) IN
     IF r.ok
     THEN /\ result' = r.val
          /\ pc' = "returned"
          /\ exc' = exc
     ELSE /\ exc' = [type |-> r.exc, msg |-> r.msg]
          /\ pc' = "except"
          /\ result' = result
  /\ UNCHANGED <<argv, stdin, stdinRead, token, parts, payload, decoded, stdout,
                 exitStatus, issued>>

\* except Exception as e: print(f"Error decoding JWT: {e}"); return None
\* An exception the clause does not name leaves the function and ends the
\* process with a traceback and status 1.
Except ==
  /\ pc = "except"
  /\ IF Catches(exc.type)
     THEN /\ stdout' = Append(stdout, ErrorLine(exc))
          /\ result' = PyNone
          /\ pc' = "returned"
          /\ exitStatus' = exitStatus
     ELSE /\ pc' = "exited"
          /\ exitStatus' = 1
          /\ UNCHANGED <<stdout, result>>
  /\ UNCHANGED <<argv, stdin, stdinRead, token, parts, payload, decoded, exc, issued>>

\* if payload: print(json.dumps(payload, indent=2)), then the end of the
\* script.
PrintPayload ==
  /\ pc = "returned"
  /\ stdout' = IF Truthy(result) THEN Append(stdout, JsonLine(result)) ELSE stdout
  /\ pc' = "exited"
  /\ exitStatus' = 0
  /\ UNCHANGED <<argv, stdin, stdinRead, token, parts, payload, decoded, exc,
                 result, issued>>

Next ==
  \/ ReadArgument
  \/ ReadStdin
  \/ SplitToken
  \/ RejectFormat
  \/ TakePayload
  \/ Pad
  \/ Base64Decode
  \/ Loads
  \/ Except
  \/ PrintPayload

Spec == Init /\ [][Next]_vars

(***************************************************************************)
(* The program as a function of its token                                  *)
(***************************************************************************)

\* What a call leaves: the value returned, the lines printed, and whether
\* an exception left the function instead.
Outcome(value, lines, escaped) == [ret |-> value, out |-> lines, raised |-> escaped]

\* The except clause, e being what was raised.
Handled(e) ==
  IF Catches(e.exc)
  THEN Outcome(PyNone, <<ErrorLine([type |-> e.exc, msg |-> e.msg])>>, FALSE)
  ELSE Outcome(PyNone, <<>>, TRUE)

\* return json.loads(decoded), j being what json.loads did.
Loaded(j) == IF j.ok THEN Outcome(j.val, <<>>, FALSE) ELSE Handled(j)

\* The try block from the decoding on, d being what the decoder did.
Decoded(d) == IF d.ok THEN Loaded(JsonLoads(d.val)) ELSE Handled(d)

\* The try block from the test of the segments on.
DecodeParts(segments) ==
  IF WrongSegmentCount(segments)
  THEN Outcome(PyNone, <<InvalidFormatLine>>, FALSE)
  ELSE Decoded(UrlsafeB64Decode(AddPadding(segments[2])))

\* decode_jwt_payload(token)
DecodeJwtPayload(tok) == DecodeParts(Split(tok))

\* The entry point after the call, r being what the call left.
Printed(r) ==
  IF ~r.raised /\ Truthy(r.ret) THEN Append(r.out, JsonLine(r.ret)) ELSE r.out

\* The standard output of a run on the token.
MainOutput(tok) == Printed(DecodeJwtPayload(tok))

(***************************************************************************)
(* Vocabulary of the properties                                            *)
(***************************************************************************)

\* The number of '.' in a str: one less than the number of segments.
DotCount(text) == Cardinality({i \in 1..Len(text) : text[i] = "."})

\* decode_jwt_payload has returned.
Returned == pc \in {"returned", "exited"}

IsDiagnostic(line) == line.kind = "diagnostic"
IsErrorLine(line) == IsDiagnostic(line) /\ line.head = "Error decoding JWT: "
Diagnostics == SelectSeq(stdout, IsDiagnostic)

\* The base64url alphabet of RFC 4648: letters, digits, '-' and '_'.
IsUrlDigit(c) == \E d \in 0..63 : UrlDigit(d) = c
OnlyUrlDigits(text) == \A i \in 1..Len(text) : IsUrlDigit(text[i])

\* The call reported a decode failure.
ReportedDecodeFailure ==
  /\ Len(Diagnostics) = 1
  /\ IsErrorLine(Diagnostics[1])
  /\ result = PyNone

(***************************************************************************)
(* Properties                                                              *)
(***************************************************************************)

\* json.loads returned a value: the token had three segments and nothing
\* was raised.
DecodedAValue == Returned /\ Len(parts) = 3 /\ exc = NoExc

\* C1: when the process has ended, standard output holds exactly one of
\* the pretty-printed payload, 'Invalid JWT format' and an 'Error decoding
\* JWT: ' line, and a value that json.loads returned is the one printed.
C1_OneOutputPerRun ==
  pc = "exited" =>
    /\ Len(stdout) = 1
    /\ \/ stdout[1] = InvalidFormatLine
       \/ IsErrorLine(stdout[1])
       \/ stdout[1].kind = "json"
    /\ DecodedAValue => stdout = <<JsonLine(result)>>

\* C2: a token that does not have exactly two '.' never reaches the
\* padding, base64 or JSON steps; the call prints 'Invalid JWT format'
\* alone and returns None.
C2_WrongSegmentCountRejected ==
  (pc # "main" /\ DotCount(token) # 2) =>
    /\ pc \in {"call", "split", "returned", "exited"}
    /\ payload = <<>> /\ decoded = <<>> /\ exc = NoExc
    /\ pc \in {"call", "split"} => stdout = <<>>
    /\ Returned => (Diagnostics = <<InvalidFormatLine>> /\ result = PyNone)
    /\ pc = "exited" => stdout = <<InvalidFormatLine>>

\* A token of four segments was rejected.
C2_Witness ==
  /\ pc = "exited" /\ DotCount(token) = 3
  /\ stdout = <<InvalidFormatLine>> /\ result = PyNone

\* The token was made of a JSON object by its issuer.
IssuedObject == issued # <<>> /\ issued[1].t = "dict"

\* C3: when the middle one of three segments is the unpadded base64url
\* encoding of the UTF-8 JSON text of an object P, the call returns P and
\* prints no diagnostic.
C3_RoundTrip ==
  ( /\ IssuedObject /\ pc # "main"
    /\ DotCount(token) = 2
    /\ Split(token)[2] = B64UrlEncode(Utf8Encode(Serialize(issued[1]))) ) =>
    /\ Diagnostics = <<>>
    /\ Returned => result = issued[1]

\* An object with a member came back.
C3_Witness ==
  /\ IssuedObject /\ Returned
  /\ DotCount(token) = 2
  /\ Split(token)[2] = B64UrlEncode(Utf8Encode(Serialize(issued[1])))
  /\ issued[1].c # <<>> /\ result = issued[1]

\* A character that is neither a base64url digit nor the pad.
HasForeignChar(text) ==
  \E i \in 1..Len(text) : ~IsUrlDigit(text[i]) /\ text[i] # "="

\* C4: a three-segment token whose payload holds a character outside the
\* base64url alphabet is reported as a decode failure, with one 'Error
\* decoding JWT: ' line and None, and is never decoded to a value.
C4_ForeignCharIsFailure ==
  (Returned /\ Len(parts) = 3 /\ HasForeignChar(parts[2])) =>
    (ReportedDecodeFailure /\ exc # NoExc)

\* Whether a step raises, d being what the base64 decoder did.
Raises(d) == IF d.ok THEN ~JsonLoads(d.val).ok ELSE TRUE

\* The payload makes the base64, UTF-8 or JSON step raise.
StepsFail(segment) == Raises(UrlsafeB64Decode(AddPadding(segment)))

\* What the except clause does guarantee: a three-segment token whose
\* payload makes the base64 decoder, the text decoding or the JSON parse
\* raise gets exactly one 'Error decoding JWT: ' line carrying the text of
\* the error, and None; a payload that was decoded to a value made no step
\* raise.
FailureIsReported ==
  (Returned /\ Len(parts) = 3) =>
    /\ StepsFail(parts[2]) =>
         /\ ReportedDecodeFailure
         /\ exc # NoExc
         /\ Diagnostics[1].tail = exc.msg
    /\ DecodedAValue => ~StepsFail(parts[2])

\* C5: no exception leaves the process and the exit status is never a
\* failure: whatever is raised in the try block is caught by the except
\* clause, and the process has ended exactly when its status is 0.
C5_ExitsWithZero ==
  /\ exitStatus \in {0 - 1, 0}
  /\ pc = "exited" <=> exitStatus = 0
  /\ pc = "except" => (exc # NoExc /\ Catches(exc.type))
  /\ exc # NoExc => pc \in {"except", "returned", "exited"}

\* A run that went through the except clause ended with status 0.
C5_Witness == pc = "exited" /\ exitStatus = 0 /\ exc # NoExc

\* text[i + 1 .. j - 1] is text without leading and trailing whitespace.
IsTrimmedAt(text, i, j) ==
  /\ i < j
  /\ \A k \in 1..i : text[k] \in Whitespace
  /\ \A k \in j..Len(text) : text[k] \in Whitespace
  /\ j - i > 1 => (text[i + 1] \notin Whitespace /\ text[j - 1] \notin Whitespace)

\* C6: with an argument, stdin is not read and the token is the first
\* argument as given; without one, the token is what stdin holds between
\* its leading and trailing whitespace, and the output is that of a run
\* with that token.
C6_InputSourceEquivalence ==
  pc # "main" =>
    IF argv # <<>>
    THEN /\ ~stdinRead
         /\ token = argv[1]
         /\ pc = "exited" => stdout = MainOutput(argv[1])
    ELSE \A i \in 0..Len(stdin), j \in 1..(Len(stdin) + 1) :
           IsTrimmedAt(stdin, i, j) =>
             /\ token = SubSeq(stdin, i + 1, j - 1)
             /\ pc = "exited" => stdout = MainOutput(SubSeq(stdin, i + 1, j - 1))

\* A token read from stdin between whitespace was decoded and printed.
C6_Witness ==
  /\ pc = "exited" /\ argv = <<>> /\ stdinRead
  /\ Len(stdin) > Len(token)
  /\ Len(stdout) = 1 /\ stdout[1].kind = "json"

\* The call is past the padding step.
Padded == pc \in {"b64", "json", "except"} \/ (Returned /\ Len(parts) = 3)

\* The number of characters the padding step appended.
PadsAdded == Len(payload) - Len(parts[2])

\* C8: the padding step appends 4 - r times '=' when r = len mod 4 is not
\* 0 and nothing when it is: never four, at most three, always up to a
\* multiple of 4 and after the payload as it was.
C8_Padding ==
  Padded =>
    /\ Len(parts[2]) % 4 = 0 => PadsAdded = 0
    /\ Len(parts[2]) % 4 # 0 => PadsAdded = 4 - (Len(parts[2]) % 4)
    /\ PadsAdded \in 0..3
    /\ Len(payload) % 4 = 0
    /\ SubSeq(payload, 1, Len(parts[2])) = parts[2]
    /\ \A i \in (Len(parts[2]) + 1)..Len(payload) : payload[i] = "="

\* A payload of four characters was left as it was.
C8_Witness ==
  /\ pc = "b64" /\ Len(parts[2]) = 4 /\ payload = parts[2]

\* C9: a three-segment token whose payload segment has a length of 1
\* modulo 4 is reported as a decode failure and returns None.
C9_LengthOneModFourFails ==
  (Returned /\ Len(parts) = 3 /\ Len(parts[2]) % 4 = 1) =>
    (ReportedDecodeFailure /\ exc # NoExc)

\* What the decoder does guarantee: a payload segment of base64url digits
\* only whose length is 1 modulo 4 is rejected by the base64 decoder and
\* reported; lengths 0, 2 and 3 modulo 4 get 0, 2 and 1 '='.
DigitsOfLengthOneModFourFail ==
  /\ (Returned /\ Len(parts) = 3 /\ OnlyUrlDigits(parts[2])
        /\ Len(parts[2]) % 4 = 1) =>
       (ReportedDecodeFailure /\ exc.type = "binascii.Error")
  /\ Padded =>
       /\ Len(parts[2]) % 4 = 0 => PadsAdded = 0
       /\ Len(parts[2]) % 4 = 2 => PadsAdded = 2
       /\ Len(parts[2]) % 4 = 3 => PadsAdded = 1

\* C10: the call returns None exactly when it wrote one diagnostic.
C10_NoneIffDiagnostic ==
  Returned => (result = PyNone <=> Len(Diagnostics) = 1)

=============================================================================
